---- MODULE Spec2Model ----
(***************************************************************************)
(* Model of lib/local_features.py: the adapter LocalFeatures (one method   *)
(* per extraction backend, results accumulated in the dictionaries kpts    *)
(* and descriptors) and the facade LocalFeatureExtractor (run dispatches   *)
(* by name, once per image of a pair).                                     *)
(*                                                                         *)
(* Python values are tagged records: None, a dict (a function from stems), *)
(* an ndarray (nested sequences of integers).  The external libraries      *)
(* (OpenCV, kornia, LightGlue, ALIKE) are the environment: what they give  *)
(* back for an image is an input of the action, drawn from a small set.    *)
(*                                                                         *)
(* Assumptions: the cfg a backend needs is supplied; images are given as   *)
(* pathlib paths; the libraries give keypoints and descriptors of equal    *)
(* count; np.round is taken on the exact quotient (no float32 rounding of  *)
(* the norm); the program is single-threaded, so an operation starts only  *)
(* when the caller has taken the result of the one before (last is idle).  *)
(* Attributes inherited from object (__class__, ...) are left out of       *)
(* ClassAttrs.                                                             *)
(***************************************************************************)
EXTENDS Integers, Sequences, FiniteSets, TLC

VARIABLES
    inst,         \* the facade and its adapter (its method name), or absent
    castMode,     \* what this build's float -> uint8 conversion does out of range
    kpts,         \* LocalFeatures.kpts: stem -> keypoint array
    descriptors,  \* LocalFeatures.descriptors: stem -> descriptor array
    last          \* what the operation just made gave its caller, until the
                  \* caller goes on

vars == <<inst, castMode, kpts, descriptors, last>>

\* ---------------------------------------------------------------- bounds
MaxKp == 2        \* keypoints a library reports for one image

\* ------------------------------------------------------- program constants
OrbBytes == 32    \* width of a cv2 ORB descriptor row
PadCols == 96     \* np.zeros((des.shape[0], 96))
NormTarget == 512 \* des * 512 / norm
Uint8Range == 256 \* np.uint8

\* ---------------------------------------------------------- Python values
None == [t |-> "None"]
Dict(m) == [t |-> "dict", v |-> m]
Arr(a) == [t |-> "ndarray", v |-> a]
Unbound == [t |-> "unbound"]

EmptyDict == [s \in {} |-> <<>>]

\* a faulty variant: d.setdefault(k, v), an entry once written is never replaced
DictSet_setdefault(d, k, v) ==
    [s \in (DOMAIN d) \cup {k} |-> IF s \in DOMAIN d THEN d[s] ELSE v]

\* d[k] = v
DictSet(d, k, v) == [s \in (DOMAIN d) \cup {k} |-> IF s = k THEN v ELSE d[s]]

\* ------------------------------------------------------------------ paths
\* A pathlib.Path: directory and the dot-separated parts of the file name.
\* a/x.png, b/x.jpg (the same stem) and a/y.tar.gz
ImA == [dir |-> "a", parts |-> <<"x", "png">>]
ImB == [dir |-> "b", parts |-> <<"x", "jpg">>]
ImC == [dir |-> "a", parts |-> <<"y", "tar", "gz">>]

Images == {ImA, ImB, ImC}

\* pairs of images: an image twice, two files of one stem, two stems
ImagePairs == {<<ImA, b>> : b \in Images} \cup {<<ImC, ImA>>}

\* Path.stem: the file name without its last suffix
Stem(p) ==
    IF Len(p.parts) > 1 THEN SubSeq(p.parts, 1, Len(p.parts) - 1) ELSE p.parts

ImageLists == {<<>>} \cup {<<a>> : a \in Images} \cup ImagePairs

\* ------------------------------------------------------------ the adapter
Backends == {"ORB", "ALIKE", "DISK", "SuperPoint", "KeyNetAffNetHardNet"}
MappingBackends == Backends \ {"ALIKE"}

\* names given to the facade: the backends, an unknown name, a data attribute
\* of the adapter, and a method of the adapter that is no backend
MethodNames == Backends \cup {"SIFT", "kpts", "load_torch_image"}

\* attributes every LocalFeatures instance has through its class
ClassAttrs == Backends \cup {"load_torch_image", "load_torch_image_rgb", "__init__"}

\* attributes __init__ sets on the instance
InitAttrs(method) ==
    {"n_features", "method", "kpts", "descriptors"}
    \cup (CASE method = "ALIKE" -> {"alike_cfg", "model"}
            [] method = "ORB" -> {"orb_cfg"}
            [] method = "DISK" -> {"orb_cfg", "device", "disk"}
            [] method = "KeyNetAffNetHardNet" -> {"kornia_cfg", "device"}
            [] method = "SuperPoint" -> {"kornia_cfg"}
            [] OTHER -> {})

HasAttr(method, name) == name \in ClassAttrs \cup InitAttrs(method)

\* a faulty variant: the method name is validated at construction
LocalFeaturesInit_validating(method, libOk) ==
    IF method \notin Backends THEN "ValueError"
    ELSE IF method \in {"ALIKE", "DISK"} /\ ~libOk THEN "LibraryError" ELSE "ok"

\* LocalFeatures.__init__ with the cfg the backend needs: "ok" or the error it
\* raises.  ALIKE and DISK load their model here (lines 35, 49), which the
\* library may refuse (libOk); the other branches only store cfg.
LocalFeaturesInit(method, libOk) ==
    IF method \in {"ALIKE", "DISK"} /\ ~libOk THEN "LibraryError" ELSE "ok"

\* ------------------------------------------------- what the libraries give
\* cv2 ORB on one image: detect gives the keypoints det; compute keeps the
\* keypoints at the indices keep (it may drop some) and gives one 32-byte row
\* per kept keypoint.
DetPts(kd) == [j \in 1..kd |-> <<3 * j, 10 - j>>]

Row(h, f) == [i \in 1..OrbBytes |-> IF i = 1 THEN h ELSE f]

\* the descriptor of the j-th detected keypoint: a row with two levels, a row
\* with a single set byte, an all-zero row, a flat row, ...
DetRow(j) ==
    CASE j % 4 = 1 -> Row(2, 1)
      [] j % 4 = 2 -> Row(1, 0)
      [] j % 4 = 3 -> Row(0, 0)
      [] OTHER -> Row(1, 1)

OrbOutcomes ==
    {[readable |-> FALSE, det |-> <<>>, keep |-> {}]}
    \cup {[readable |-> TRUE, det |-> DetPts(MaxKp), keep |-> K] : K \in SUBSET (1..MaxKp)}

\* a deep extractor on one image: it fails (file unreadable, no accelerator)
\* or gives n keypoints and descriptors of dimension d
DescDims == {3}

DeepOutcomes ==
    {[readable |-> FALSE, n |-> 0, d |-> 0]}
    \cup {[readable |-> TRUE, n |-> n, d |-> d] : n \in 0..MaxKp, d \in DescDims}

LibKeypoints(n) == [j \in 1..n |-> <<10 * j + 1, 10 * j + 2>>]
LibDescriptors(n, d) == [j \in 1..n |-> [c \in 1..d |-> 100 * j + c]]
\* kornia local affine frames, shape (1, n, 2, 3): the last column is the centre
LibLafs(n) == << [j \in 1..n |-> << <<1, 0, 10 * j + 1>>, <<0, 1, 10 * j + 2>> >>] >>

Outcomes(name) == IF name = "ORB" THEN OrbOutcomes ELSE DeepOutcomes

\* what a float -> uint8 conversion of a value outside 0..255 gives is not
\* defined: a build either keeps the low byte or saturates
CastModes == {"wrap", "saturate"}

\* -------------------------------------------------------------- ORB arrays
\* the elements of seq at the indices in keep, in order
RECURSIVE Kept(_, _, _)
Kept(seq, keep, i) ==
    IF i > Len(seq) THEN <<>>
    ELSE (IF i \in keep THEN <<seq[i]>> ELSE <<>>) \o Kept(seq, keep, i + 1)

\* kp = orb.detect(im, None)
OrbDetect(out) == out.det

\* a faulty variant: the keypoints of detect are used, not those compute gives back
OrbCompute_detected(out) ==
    [kp |-> OrbDetect(out),
     des |-> Kept([j \in 1..Len(out.det) |-> DetRow(j)], out.keep, 1)]

\* kp, des = orb.compute(im, kp): the keypoints kept, in detection order, and
\* their descriptor rows
OrbCompute(out) ==
    [kp |-> Kept(OrbDetect(out), out.keep, 1),
     des |-> Kept([j \in 1..Len(out.det) |-> DetRow(j)], out.keep, 1)]

\* np.append(a, <constant column>, axis=1)
AppendCol(a, c) == [j \in 1..Len(a) |-> Append(a[j], c)]

\* a faulty variant: the two constant columns the other way round
OrbKpts_swapped(kp) == AppendCol(AppendCol(kp, 0), 1)

\* lines 86-91: the coordinates, a column of ones, a column of zeros
OrbKpts(kp) == AppendCol(AppendCol(kp, 1), 0)

\* lines 93-94: 96 zero columns appended to a row
PadRow(row) == row \o [i \in 1..PadCols |-> 0]

Abs(x) == IF x < 0 THEN -x ELSE x

\* the sum of the squares of row[lo..hi]
RECURSIVE SumSqRange(_, _, _)
SumSqRange(row, lo, hi) ==
    IF lo > hi THEN 0
    ELSE IF lo = hi THEN row[lo] * row[lo]
    ELSE LET mid == (lo + hi) \div 2
         IN  SumSqRange(row, lo, mid) + SumSqRange(row, mid + 1, hi)

\* np.linalg.norm(row) squared
SumSq(row) == SumSqRange(row, 1, Len(row))

\* the largest r in lo..hi with r * sqrt(s) <= num
RECURSIVE FloorDivSqrt(_, _, _, _)
FloorDivSqrt(num, s, lo, hi) ==
    IF lo = hi THEN lo
    ELSE LET mid == (lo + hi + 1) \div 2
         IN  IF mid * mid * s <= num * num
             THEN FloorDivSqrt(num, s, mid, hi)
             ELSE FloorDivSqrt(num, s, lo, mid - 1)

\* lines 96-97: np.round(x * 512 / norm), half to even; 0 / 0 is NaN
RoundNormalized(x, s) ==
    IF s = 0 THEN [nan |-> TRUE, v |-> 0]
    ELSE LET num == x * NormTarget
             r == FloorDivSqrt(num, s, 0, NormTarget)
             lhs == (2 * r + 1) * (2 * r + 1) * s
             rhs == 4 * num * num
         IN  [nan |-> FALSE,
              v |-> IF lhs < rhs THEN r + 1
                    ELSE IF lhs > rhs THEN r
                    ELSE IF r % 2 = 0 THEN r ELSE r + 1]

\* line 98: np.array(des, dtype=np.uint8)
CastUint8(r, cast) ==
    IF r.nan THEN 0
    ELSE IF r.v < Uint8Range THEN r.v
    ELSE IF cast = "wrap" THEN r.v % Uint8Range ELSE Uint8Range - 1

\* line 95: np.absolute
AbsRow(row) == [i \in 1..Len(row) |-> Abs(row[i])]

\* lines 96-98 for one row whose squared norm is s
QuantizeRow(row, s, cast) ==
    [i \in 1..Len(row) |-> CastUint8(RoundNormalized(row[i], s), cast)]

\* lines 93-98 for one row
OrbRow(row, cast) ==
    QuantizeRow(AbsRow(PadRow(row)), SumSq(AbsRow(PadRow(row))), cast)

\* OrbRow of every row the library can give, worked out once
OrbRowOf == [r \in {DetRow(j) : j \in 1..MaxKp}, c \in CastModes |-> OrbRow(r, c)]

OrbDes(des, cast) == [j \in 1..Len(des) |-> OrbRowOf[des[j], cast]]

\* ----------------------------------------------------- array reshaping
\* a.reshape(-1, a.shape[-1]) of a (batch, n, c) array: the rows of all batches
Reshape2D(a) ==
    LET F[i \in 0..Len(a)] == IF i = 0 THEN <<>> ELSE F[i - 1] \o a[i]
    IN  F[Len(a)]

\* a[-1, :, :, -1] of a (batch, n, 2, 3) array
SliceLastBatchLastCol(a) ==
    LET b == a[Len(a)]
    IN  [j \in 1..Len(b) |-> [r \in 1..Len(b[j]) |-> b[j][r][Len(b[j][r])]]]

\* a[-1, :, :] of a (batch, n, d) array
SliceLastBatch(a) == a[Len(a)]

\* ------------------------------------------- one pass of a backend's loop
\* The loop state: the two dictionaries, the local variables laf and
\* features, the error raised (if any), and what was extracted per image.
LoopStart(kp, ds) ==
    [kpts |-> kp, descriptors |-> ds, laf |-> Unbound, features |-> Unbound,
     err |-> "none", res |-> <<>>]

Raise(st, e) == [st EXCEPT !.err = e]

\* a faulty variant: the descriptors are not stored
Store_kptsOnly(st, img, k, d, l, out) ==
    [st EXCEPT !.kpts = DictSet(st.kpts, Stem(img), k),
               !.laf = l,
               !.res = Append(st.res, [image |-> img, kpts |-> k, descs |-> d,
                                       laf |-> l, lib |-> out])]

\* self.kpts[stem] = k; self.descriptors[stem] = d; laf = l
Store(st, img, k, d, l, out) ==
    [st EXCEPT !.kpts = DictSet(st.kpts, Stem(img), k),
               !.descriptors = DictSet(st.descriptors, Stem(img), d),
               !.laf = l,
               !.res = Append(st.res, [image |-> img, kpts |-> k, descs |-> d,
                                       laf |-> l, lib |-> out])]

\* a faulty variant: self.kpts[stem] is assigned before the descriptors are worked out
OrbStep_storeEarly(st, self, img, out, cast) ==
    IF "orb_cfg" \notin InitAttrs(self.method)
    THEN Raise(st, "AttributeError")
    ELSE IF ~out.readable THEN Raise(st, "LibraryError")
    ELSE LET c == OrbCompute(out)
         IN  IF Len(c.kp) = 0
             THEN Raise([st EXCEPT !.kpts = DictSet(st.kpts, Stem(img), OrbKpts(c.kp))],
                        "ShapeError")
             ELSE Store(st, img, OrbKpts(c.kp), OrbDes(c.des, cast), None, out)

\* ORB, lines 71-103
OrbStep(st, self, img, out, cast) ==
    IF "orb_cfg" \notin InitAttrs(self.method)
    THEN Raise(st, "AttributeError")                 \* self.orb_cfg.scaleFactor
    ELSE IF ~out.readable THEN Raise(st, "LibraryError")   \* orb.detect(None)
    ELSE LET c == OrbCompute(out)
         IN  IF Len(c.kp) = 0 THEN Raise(st, "ShapeError")  \* des is None
             ELSE Store(st, img, OrbKpts(c.kp), OrbDes(c.des, cast), None, out)

\* ALIKE, lines 109-110
AlikeStep(st, self, img, out) ==
    IF "model" \notin InitAttrs(self.method) THEN Raise(st, "AttributeError")
    ELSE IF ~out.readable THEN Raise(st, "LibraryError")
    ELSE [st EXCEPT !.features = [t |-> "features",
                                  keypoints |-> LibKeypoints(out.n),
                                  descriptors |-> LibDescriptors(out.n, out.d)],
                    !.laf = None,
                    !.res = Append(st.res, [image |-> img,
                                            kpts |-> LibKeypoints(out.n),
                                            descs |-> LibDescriptors(out.n, out.d),
                                            laf |-> None, lib |-> out])]

\* a faulty variant: DISK hands its keypoints back as the LAF
DiskStep_laf(st, self, img, out) ==
    IF ~out.readable THEN Raise(st, "LibraryError")
    ELSE IF "device" \notin InitAttrs(self.method) THEN Raise(st, "AttributeError")
    ELSE Store(st, img, LibKeypoints(out.n), LibDescriptors(out.n, out.d),
               Arr(LibKeypoints(out.n)), out)

\* DISK, lines 119-126
DiskStep(st, self, img, out) ==
    IF ~out.readable THEN Raise(st, "LibraryError")        \* image_to_tensor(None)
    ELSE IF "device" \notin InitAttrs(self.method) THEN Raise(st, "AttributeError")
    ELSE Store(st, img, LibKeypoints(out.n), LibDescriptors(out.n, out.d), None, out)

\* SuperPoint, lines 133-140
SuperPointStep(st, self, img, out) ==
    IF ~out.readable THEN Raise(st, "LibraryError")        \* .cuda(), load_image
    ELSE Store(st, img, Reshape2D(<<LibKeypoints(out.n)>>),
               Reshape2D(<<LibDescriptors(out.n, out.d)>>), None, out)

\* KeyNetAffNetHardNet, lines 146-152
KeyNetStep(st, self, img, out) ==
    IF ~out.readable THEN Raise(st, "LibraryError")        \* image_to_tensor(None)
    ELSE IF "device" \notin InitAttrs(self.method) THEN Raise(st, "AttributeError")
    ELSE LET keypts == <<LibLafs(out.n), <<>>, <<LibDescriptors(out.n, out.d)>>>>
         IN  Store(st, img, SliceLastBatchLastCol(keypts[1]),
                   SliceLastBatch(keypts[3]), Arr(keypts[1]), out)

Step(name, st, self, img, out, cast) ==
    CASE name = "ORB" -> OrbStep(st, self, img, out, cast)
      [] name = "ALIKE" -> AlikeStep(st, self, img, out)
      [] name = "DISK" -> DiskStep(st, self, img, out)
      [] name = "SuperPoint" -> SuperPointStep(st, self, img, out)
      [] name = "KeyNetAffNetHardNet" -> KeyNetStep(st, self, img, out)

\* for im_path in images: ... (an error ends the loop)
RECURSIVE Loop(_, _, _, _, _, _, _)
Loop(name, st, self, images, outs, cast, i) ==
    IF i > Len(images) \/ st.err # "none" THEN st
    ELSE Loop(name, Step(name, st, self, images[i], outs[i], cast),
              self, images, outs, cast, i + 1)

\* what runs before the loop: disk = self.disk (line 116)
Prologue(name, st, self) ==
    IF name = "DISK" /\ "disk" \notin InitAttrs(self.method)
    THEN Raise(st, "AttributeError")
    ELSE st

\* the return statement: reading a local the loop never bound is an error
Return(name, st) ==
    IF st.err # "none" THEN st
    ELSE IF name = "ALIKE"
    THEN IF st.features.t = "unbound" THEN Raise(st, "UnboundLocalError") ELSE st
    ELSE IF st.laf.t = "unbound" THEN Raise(st, "UnboundLocalError") ELSE st

\* the value a backend method returns, given the loop's final state
Returned(name, st) ==
    IF st.err # "none" THEN [t |-> "raise"]
    ELSE IF name = "ALIKE"
    THEN [t |-> "tuple", kpts |-> Arr(st.features.keypoints),
          descs |-> Arr(st.features.descriptors), laf |-> st.laf]
    ELSE [t |-> "tuple", kpts |-> Dict(st.kpts),
          descs |-> Dict(st.descriptors), laf |-> st.laf]

\* a whole backend method on the adapter
Backend(name, kp, ds, self, images, outs, cast) ==
    Return(name,
           Loop(name, Prologue(name, LoopStart(kp, ds), self),
                self, images, outs, cast, 1))

\* -------------------------------------------------------------- the facade
\* extract = getattr(self.detector_and_descriptor, self.local_feature);
\* extract([img]) -- lines 175-176, for one image of the pair
Extract(name, kp, ds, self, img, out, cast) ==
    IF ~HasAttr(self.method, name)
    THEN [st |-> Raise(LoopStart(kp, ds), "AttributeError"), calls |-> <<>>]
    ELSE IF name \in Backends
    THEN [st |-> Backend(name, kp, ds, self, <<img>>, <<out>>, cast),
          calls |-> << <<img>> >>]
    ELSE IF name \in ClassAttrs
    THEN [st |-> Raise(LoopStart(kp, ds), "LibraryError"), calls |-> <<>>]
    ELSE [st |-> Raise(LoopStart(kp, ds), "TypeError"), calls |-> <<>>]

\* An element of a list run returns.  A mapping-backed backend returns the
\* adapter's own dictionary, not a copy: the caller sees its final content.
Element(v, final) == IF v.t = "dict" THEN Dict(final) ELSE v

\* a faulty variant: an error of the first image is swallowed and the second is tried
RunResult_swallow(self, kp, ds, im0, im1, o0, o1, cast) ==
    LET name == self.method
        e0 == Extract(name, kp, ds, self, im0, o0, cast)
        e1 == Extract(name, e0.st.kpts, e0.st.descriptors, self, im1, o1, cast)
        r1 == Returned(name, e1.st)
    IN  IF e1.st.err # "none"
        THEN [kpts |-> e1.st.kpts, descriptors |-> e1.st.descriptors,
              err |-> e1.st.err, calls |-> e0.calls \o e1.calls,
              res |-> e0.st.res \o e1.st.res, ret |-> [t |-> "raise"]]
        ELSE [kpts |-> e1.st.kpts, descriptors |-> e1.st.descriptors,
              err |-> "none", calls |-> e0.calls \o e1.calls,
              res |-> e0.st.res \o e1.st.res,
              ret |-> [t |-> "lists",
                       keypoints |-> <<Element(r1.kpts, e1.st.kpts)>>,
                       descriptors |-> <<Element(r1.descs, e1.st.descriptors)>>,
                       lafs |-> <<r1.laf>>]]

\* LocalFeatureExtractor.run(im0, im1), lines 170-180
RunResult(self, kp, ds, im0, im1, o0, o1, cast) ==
    LET name == self.method
        e0 == Extract(name, kp, ds, self, im0, o0, cast)
        r0 == Returned(name, e0.st)
    IN  IF e0.st.err # "none"
        THEN [kpts |-> e0.st.kpts, descriptors |-> e0.st.descriptors,
              err |-> e0.st.err, calls |-> e0.calls, res |-> e0.st.res,
              ret |-> [t |-> "raise"]]
        ELSE LET e1 == Extract(name, e0.st.kpts, e0.st.descriptors, self,
                               im1, o1, cast)
                 r1 == Returned(name, e1.st)
                 calls == e0.calls \o e1.calls
                 res == e0.st.res \o e1.st.res
             IN  IF e1.st.err # "none"
                 THEN [kpts |-> e1.st.kpts, descriptors |-> e1.st.descriptors,
                       err |-> e1.st.err, calls |-> calls, res |-> res,
                       ret |-> [t |-> "raise"]]
                 ELSE [kpts |-> e1.st.kpts, descriptors |-> e1.st.descriptors,
                       err |-> "none", calls |-> calls, res |-> res,
                       ret |-> [t |-> "lists",
                                keypoints |-> <<Element(r0.kpts, e1.st.kpts),
                                                Element(r1.kpts, e1.st.kpts)>>,
                                descriptors |-> <<Element(r0.descs, e1.st.descriptors),
                                                  Element(r1.descs, e1.st.descriptors)>>,
                                lafs |-> <<r0.laf, r1.laf>>]]

\* ----------------------------------------------------------------- actions
NoInstance == [present |-> FALSE, method |-> ""]

\* the caller holds no result
Idle ==
    [op |-> "idle", name |-> "", images |-> <<>>, err |-> "none",
     calls |-> <<>>, res |-> <<>>, ret |-> None]

Init ==
    /\ inst = NoInstance
    /\ castMode \in CastModes
    /\ kpts = EmptyDict
    /\ descriptors = EmptyDict
    /\ last = Idle

\* LocalFeatureExtractor(local_feature, local_feature_cfg)
Construct(m, libOk) ==
    /\ last.op = "idle"
    /\ ~inst.present
    /\ LET r == LocalFeaturesInit(m, libOk)
       IN  /\ inst' = IF r = "ok" THEN [present |-> TRUE, method |-> m]
                      ELSE NoInstance
           /\ last' = [Idle EXCEPT !.op = "construct", !.name = m,
                                   !.err = IF r = "ok" THEN "none" ELSE r]
    /\ kpts' = EmptyDict
    /\ descriptors' = EmptyDict
    /\ UNCHANGED castMode

\* extractor.run(im0, im1)
Run(im0, im1, o0, o1) ==
    /\ last.op = "idle"
    /\ inst.present
    /\ LET r == RunResult(inst, kpts, descriptors, im0, im1, o0, o1, castMode)
       IN  /\ kpts' = r.kpts
           /\ descriptors' = r.descriptors
           /\ last' = [op |-> "run", name |-> inst.method, images |-> <<im0, im1>>,
                       err |-> r.err, calls |-> r.calls, res |-> r.res,
                       ret |-> r.ret]
    /\ UNCHANGED <<inst, castMode>>

\* the adapter's configured backend method called on a list of images:
\* extractor.detector_and_descriptor.<method>(images)
Call(images, outs) ==
    /\ last.op = "idle"
    /\ inst.present
    /\ inst.method \in Backends
    /\ LET name == inst.method
           st == Backend(name, kpts, descriptors, inst, images, outs, castMode)
       IN  /\ kpts' = st.kpts
           /\ descriptors' = st.descriptors
           /\ last' = [op |-> "call", name |-> name, images |-> images,
                       err |-> st.err, calls |-> <<images>>, res |-> st.res,
                       ret |-> Returned(name, st)]
    /\ UNCHANGED <<inst, castMode>>

\* the caller takes what the operation gave (or its error) and goes on
Resume ==
    /\ last.op # "idle"
    /\ last' = Idle
    /\ UNCHANGED <<inst, castMode, kpts, descriptors>>

DoConstruct == \E m \in MethodNames, libOk \in BOOLEAN : Construct(m, libOk)

DoRun ==
    \E pair \in ImagePairs :
        \E o0, o1 \in Outcomes(inst.method) : Run(pair[1], pair[2], o0, o1)

DoCall ==
    \E images \in ImageLists :
        \E outs \in [1..Len(images) -> Outcomes(inst.method)] : Call(images, outs)

Next == DoConstruct \/ DoRun \/ DoCall \/ Resume

Spec == Init /\ [][Next]_vars

\* ------------------------------------------------------------ properties
\* the stems of the images an operation extracted successfully
Stems(res) == {Stem(res[i].image) : i \in 1..Len(res)}

\* the last of them with stem s
Latest(res, s) ==
    res[CHOOSE i \in 1..Len(res) :
            /\ Stem(res[i].image) = s
            /\ \A j \in (i + 1)..Len(res) : Stem(res[j].image) # s]

\* names that are no attribute of an adapter constructed with that name
NoAttribute(name) == name \notin ClassAttrs \cup InitAttrs(name)

\* C1 as stated: for every method name that is not one of the five backends,
\* construction succeeds and run fails with an attribute-lookup error, no
\* backend having been invoked and both mappings left as they were.
C1_AnyNonBackendName ==
    /\ (last.op = "construct" /\ last.name \notin Backends)
          => (last.err = "none" /\ inst.present)
    /\ (last.op = "run" /\ last.name \notin Backends)
          => /\ last.err = "AttributeError"
             /\ last.calls = <<>> /\ last.res = <<>>
             /\ kpts = EmptyDict /\ descriptors = EmptyDict

\* C1 amended: for every method name that names no attribute of the adapter,
\* construction succeeds and run fails with an attribute-lookup error, no
\* backend having been invoked, no image processed and both mappings left
\* empty; a non-backend name that is an attribute of the adapter constructs
\* too, and run fails with another error.
C1_UnknownNameFailsAtFirstUse ==
    /\ (last.op = "construct" /\ last.name \notin Backends)
          => (last.err = "none" /\ inst.present /\ inst.method = last.name)
    /\ (last.op = "run" /\ last.name \notin Backends)
          => /\ last.ret.t = "raise"
             /\ last.err = IF NoAttribute(last.name) THEN "AttributeError"
                           ELSE IF last.name \in ClassAttrs THEN "LibraryError"
                           ELSE "TypeError"
             /\ last.calls = <<>> /\ last.res = <<>>
             /\ kpts = EmptyDict /\ descriptors = EmptyDict

C1_Witness ==
    /\ last.op = "run" /\ last.name = "SIFT" /\ last.err = "AttributeError"
    /\ inst.present

\* C2: a successful call of a mapping-backed backend (directly or through
\* run) adds exactly the stems it processed to both mappings, leaves the
\* entry of every other stem as it was, and leaves under each processed stem
\* the result of the last image of that stem.
C2_Step ==
    (last'.op \in {"call", "run"} /\ last'.name \in MappingBackends
        /\ last'.err = "none")
    => /\ DOMAIN kpts' = (DOMAIN kpts) \cup Stems(last'.res)
       /\ DOMAIN descriptors' = (DOMAIN descriptors) \cup Stems(last'.res)
       /\ \A s \in (DOMAIN kpts) \ Stems(last'.res) : kpts'[s] = kpts[s]
       /\ \A s \in (DOMAIN descriptors) \ Stems(last'.res) :
              descriptors'[s] = descriptors[s]
       /\ \A s \in Stems(last'.res) :
              /\ kpts'[s] = Latest(last'.res, s).kpts
              /\ descriptors'[s] = Latest(last'.res, s).descs
       /\ Len(last'.res) = Len(last'.images)

C2_OverwriteNoEviction == [][C2_Step]_vars

\* a run over two files of one stem that gave different results, the entry of
\* the other stem still there
C2_Witness ==
    /\ last.op = "run" /\ last.name = "DISK" /\ last.err = "none"
    /\ last.images = <<ImA, ImB>>
    /\ last.res[1].kpts # last.res[2].kpts
    /\ DOMAIN kpts = {Stem(ImA), Stem(ImC)}

\* what "the result of image i alone" can be: its array, or a mapping with the
\* stem of image i as its only key
AloneResult(v, img, a) ==
    \/ v.t = "ndarray" /\ v.v = a
    \/ v.t = "dict" /\ v.v = DictSet(EmptyDict, Stem(img), a)

\* C3: the three lists run returns have two elements each, and element i of
\* each is the result of image i alone.
C3_PerImageLists ==
    (last.op = "run" /\ last.err = "none")
    => /\ Len(last.ret.keypoints) = 2
       /\ Len(last.ret.descriptors) = 2
       /\ Len(last.ret.lafs) = 2
       /\ \A i \in 1..2 :
              /\ AloneResult(last.ret.keypoints[i], last.images[i], last.res[i].kpts)
              /\ AloneResult(last.ret.descriptors[i], last.images[i], last.res[i].descs)
              /\ last.ret.lafs[i] = last.res[i].laf

\* C4: the descriptor array of an image has as many rows as its keypoint
\* array, in both mappings and in what every backend extracted.
C4_RowAligned ==
    /\ \A s \in (DOMAIN kpts) \cap (DOMAIN descriptors) :
           Len(kpts[s]) = Len(descriptors[s])
    /\ \A i \in 1..Len(last.res) :
           Len(last.res[i].kpts) = Len(last.res[i].descs)
    /\ (last.op = "call" /\ last.name = "ALIKE" /\ last.ret.t = "tuple")
           => Len(last.ret.kpts.v) = Len(last.ret.descs.v)

\* ORB kept fewer keypoints than it detected
C4_Witness ==
    /\ last.op = "call" /\ last.name = "ORB" /\ Len(last.res) = 1
    /\ Len(last.res[1].kpts) < Len(last.res[1].lib.det)
    /\ Len(last.res[1].descs) = 1

\* C5: a backend method that returns gives a null LAF, except
\* KeyNetAffNetHardNet, which gives an array; so do the elements of the LAF
\* list of run.
C5_LafNullExceptKeyNet ==
    /\ (last.op = "call" /\ last.ret.t = "tuple")
           => (last.ret.laf.t = "None" <=> last.name # "KeyNetAffNetHardNet")
    /\ (last.op = "call" /\ last.ret.t = "tuple" /\ last.name = "KeyNetAffNetHardNet")
           => last.ret.laf.t = "ndarray"
    /\ (last.op = "run" /\ last.ret.t = "lists")
           => \A i \in 1..Len(last.ret.lafs) :
                  IF last.name = "KeyNetAffNetHardNet"
                  THEN last.ret.lafs[i].t = "ndarray"
                  ELSE last.ret.lafs[i].t = "None"

C5_Witness ==
    /\ last.op = "call" /\ last.name = "DISK" /\ last.ret.t = "tuple"
    /\ Len(last.images) = 2 /\ last.ret.laf.t = "None"

\* after an operation, each image it processed has its entry in both mappings
StoredUnderStem ==
    \A s \in Stems(last.res) :
        /\ s \in DOMAIN kpts /\ s \in DOMAIN descriptors
        /\ kpts[s] = Latest(last.res, s).kpts
        /\ descriptors[s] = Latest(last.res, s).descs

\* C6 as stated: after a call of any of the five backend methods both
\* mappings hold an entry under the stem of each image processed.
C6_EveryBackendStores ==
    (last.op = "call" /\ last.name \in Backends) => StoredUnderStem

\* C6 amended: after a call of a mapping-backed backend method (ORB, DISK,
\* SuperPoint, KeyNetAffNetHardNet) both mappings hold, under the stem of each
\* image processed, that image's result (the last one of that stem); a call
\* of ALIKE stores nothing and leaves both mappings as they were.
C6_MappingBackendsStore ==
    /\ (last.op = "call" /\ last.name \in MappingBackends) => StoredUnderStem
    /\ (last.op = "call" /\ last.name = "ALIKE")
           => (kpts = EmptyDict /\ descriptors = EmptyDict)

C6_Witness ==
    /\ last.op = "call" /\ last.name = "SuperPoint" /\ last.err = "none"
    /\ last.images = <<ImA, ImC>>
    /\ DOMAIN kpts = {Stem(ImA), Stem(ImC)}

\* C7: every descriptor array ORB stores has 128 columns, values in 0..255,
\* and each value is the rounded value of the row scaled to norm 512.
C7_OrbQuantized ==
    \A i \in 1..Len(last.res) :
        last.name = "ORB" =>
            LET raw == OrbCompute(last.res[i].lib).des
                got == last.res[i].descs
            IN  /\ Len(got) = Len(raw)
                /\ \A j \in 1..Len(got) :
                       LET p == AbsRow(PadRow(raw[j]))
                           n == SumSq(p)
                       IN  /\ Len(got[j]) = OrbBytes + PadCols
                           /\ \A c \in 1..Len(got[j]) :
                                  /\ got[j][c] \in 0..(Uint8Range - 1)
                                  /\ ~RoundNormalized(p[c], n).nan
                                  /\ got[j][c] = RoundNormalized(p[c], n).v

\* the j-th smallest element of a set of numbers
Nth(S, j) == CHOOSE m \in S : Cardinality({n \in S : n <= m}) = j

\* C8: the keypoint array ORB stores for an image with k keypoints has k rows
\* of 4 columns: the coordinates in detection order, then 1, then 0.
C8_OrbKeypointColumns ==
    \A i \in 1..Len(last.res) :
        last.name = "ORB" =>
            LET lib == last.res[i].lib
                got == last.res[i].kpts
            IN  /\ Len(got) = Cardinality(lib.keep)
                /\ kpts[Stem(last.res[i].image)] = Latest(last.res, Stem(last.res[i].image)).kpts
                /\ \A j \in 1..Len(got) :
                       /\ Len(got[j]) = 4
                       /\ <<got[j][1], got[j][2]>> = lib.det[Nth(lib.keep, j)]
                       /\ got[j][3] = 1
                       /\ got[j][4] = 0

C8_Witness ==
    /\ last.op = "call" /\ last.name = "ORB" /\ Len(last.res) = 1
    /\ Len(last.res[1].kpts) = 2

\* C9: run invokes the backend with [im0], then with [im1]; when the
\* invocation for im0 raises, im1 is not processed and nothing is returned;
\* when the invocation for im1 raises, nothing is returned either.
C9_SequentialNoRetry ==
    (last.op = "run" /\ last.name \in Backends)
    => LET im0 == last.images[1]
           im1 == last.images[2]
       IN  /\ last.err = "none"
               => /\ last.calls = << <<im0>>, <<im1>> >>
                  /\ last.ret.t = "lists"
                  /\ Len(last.res) = 2
           /\ last.err # "none"
               => /\ last.ret.t = "raise"
                  /\ \/ last.calls = << <<im0>> >> /\ last.res = <<>>
                     \/ /\ last.calls = << <<im0>>, <<im1>> >>
                        /\ Len(last.res) = 1
                        /\ last.res[1].image = im0

\* im0 was processed, im1 failed
C9_Witness ==
    /\ last.op = "run" /\ last.name = "ORB" /\ last.err # "none"
    /\ Len(last.calls) = 2 /\ Len(last.res) = 1
    /\ Stem(last.images[1]) \in DOMAIN kpts

\* C10: both mappings always have the same keys, and an operation changes
\* only the entries of the stems of the images it extracted successfully
\* (also when it then fails on a later image).
C10_Step ==
    LET done == IF last'.name \in MappingBackends THEN Stems(last'.res) ELSE {}
    IN  /\ DOMAIN kpts' = DOMAIN descriptors'
        /\ DOMAIN kpts' = (DOMAIN kpts) \cup done
        /\ \A s \in (DOMAIN kpts) \ done :
               /\ kpts'[s] = kpts[s]
               /\ descriptors'[s] = descriptors[s]

C10_SameKeys == [][C10_Step]_vars

\* a call that stored its first image and failed on the second
C10_Witness ==
    /\ last.op = "call" /\ last.name \in MappingBackends
    /\ last.err # "none" /\ Len(last.images) = 2 /\ Len(last.res) = 1
    /\ DOMAIN kpts = {Stem(ImA), Stem(ImC)}

====
